---- MODULE Spec2Model ----
(***************************************************************************)
(* Audiolize: live audio capture -> input frame queue -> analyzer thread   *)
(* -> output queue -> main context -> render timer.                        *)
(*                                                                         *)
(* The specifications of this module:                                      *)
(*   QueueSpec    : one frame queue used by one producer and one consumer, *)
(*                  every memory access a step of its own.                 *)
(*   Spec         : the application: window, audio driver, capture         *)
(*                  callback, analyzer objects and their worker threads,   *)
(*                  main context; device switch and shutdown.              *)
(*   PipelineSpec : the pipeline left alone, for a longer run of frames.   *)
(*   RenderSpec   : the pipeline with resize events and render ticks.      *)
(*   SmoothSpec   : render ticks alone, from every pair of heights.        *)
(*   DriverSpec   : the audio driver's interface called in any order.      *)
(*   SwitchSpec   : device switches, each device with frames of its own.  *)
(*   TeardownSpec : the window destroyed while timers and threads go on.   *)
(*   SetupSpec    : window construction with every outcome of its calls.   *)
(*   LifecycleSpec: the application with every outcome of the setup.       *)
(*   ConfigSpec   : class initialisation for pairs of FRAMES_PER_BUFFER    *)
(*                  and NYQUIST_BIN.                                       *)
(*   BandSpec     : the band mapping of one frame at each sample rate.     *)
(*   DrainSpec    : the pipeline with a main context that keeps running   *)
(*                  the calls posted to it.                                *)
(***************************************************************************)
EXTENDS Integers, Sequences, FiniteSets, TLC

(***************************************************************************)
(* Program constants.                                                      *)
(***************************************************************************)
RING_BUFFER_SIZE == 4

SKIP_SAMPLES == 4

paContinue == 0

FRAMES_PER_BUFFER == 256

FPS == 60

\* Number of frequency bands of the output.
FREQUENCIES == 7

FREQUENCY_RANGES == << 60, 150, 400, 1000, 2400, 6000, 14000 >>

\* Half of the sampling frame, as fft.c defines it.
NYQUIST_BIN == FRAMES_PER_BUFFER \div 2

\* The literal the earlier fft.c gave NYQUIST_BIN, next to the same
\* FRAMES_PER_BUFFER.
NYQUIST_BIN_literal == 256

(***************************************************************************)
(* Bounds of the model.                                                    *)
(***************************************************************************)
\* Queue capacities explored by QueueSpec are 2^0 .. 2^MaxCapLog.
MaxCapLog == 2

\* Number of records the producer of QueueSpec offers.
MaxWrites == 5

\* Number of hardware buffer-ready events in Spec.
MaxFrames == 5

\* Number of hardware buffer-ready events in PipelineSpec.
MaxRunFrames == 20

\* Number of hardware buffer-ready events in RenderSpec.
MaxRenderFrames == 8

\* Heights of the drawing area are 0 .. MaxSurfaceHeight.
MaxSurfaceHeight == 2

\* Target and displayed heights SmoothSpec starts from are 0 .. MaxBar.
MaxBar == 5

\* Render ticks with a surface are counted up to MaxTicks.
MaxTicks == 2

\* Number of hardware buffer-ready events in SwitchSpec.
MaxSwitchFrames == 4

\* ConfigSpec draws FRAMES_PER_BUFFER and NYQUIST_BIN from 1 .. MaxConfig, next
\* to the pairs of the two versions of fft.c.
MaxConfig == 10

\* BandSpec analyses tones at the multiples of ToneStep Hz below half the
\* sample rate.
ToneStep == 50

\* A read outside the magnitude array yields one of 0 .. MaxGarbage.
MaxGarbage == 3

\* Number of analyzer objects ever constructed (1 + number of device switches).
MaxFFT == 2

\* Number of audio devices PortAudio reports.
NumDevices == 2

(***************************************************************************)
(* The frame queue (PaUtilRingBuffer): two cursors kept modulo twice the   *)
(* capacity, the write cursor moved only by the producer, the read cursor  *)
(* only by the consumer.                                                   *)
(***************************************************************************)
RECURSIVE Pow2(_)
Pow2(k) == IF k = 0 THEN 1 ELSE 2 * Pow2(k - 1)

PaUtil_InitializeRingBuffer(elementCount, blank) ==
    [ bufferSize |-> elementCount,
      buffer     |-> [i \in 0 .. (elementCount - 1) |-> blank],
      readIndex  |-> 0,
      writeIndex |-> 0 ]

BigMask(rb) == 2 * rb.bufferSize

PaUtil_GetRingBufferReadAvailable(rb) ==
    (rb.writeIndex - rb.readIndex) % BigMask(rb)

WriteAvailable_Mutant(rb) ==
    (rb.bufferSize + 1) - PaUtil_GetRingBufferReadAvailable(rb)

PaUtil_GetRingBufferWriteAvailable(rb) ==
    rb.bufferSize - PaUtil_GetRingBufferReadAvailable(rb)

WriteSlot(rb) == rb.writeIndex % rb.bufferSize

ReadSlot_Mutant(rb) == (rb.readIndex + 1) % rb.bufferSize

ReadSlot(rb) == rb.readIndex % rb.bufferSize

PaUtil_AdvanceRingBufferWriteIndex(rb, n) ==
    [rb EXCEPT !.writeIndex = (@ + n) % BigMask(rb)]

AdvanceRead_Mutant(rb, n) ==
    [rb EXCEPT !.readIndex = (@ + n + 1) % BigMask(rb)]

PaUtil_AdvanceRingBufferReadIndex(rb, n) ==
    [rb EXCEPT !.readIndex = (@ + n) % BigMask(rb)]

\* One-record write as one step: the result and the queue afterwards.
PaUtil_WriteRingBuffer(rb, rec) ==
    IF PaUtil_GetRingBufferWriteAvailable(rb) = 0
    THEN [rb |-> rb, n |-> 0]
    ELSE [rb |-> PaUtil_AdvanceRingBufferWriteIndex(
                     [rb EXCEPT !.buffer[WriteSlot(rb)] = rec], 1),
          n  |-> 1]

\* One-record read as one step: the result, the record and the queue afterwards.
PaUtil_ReadRingBuffer(rb, old) ==
    IF PaUtil_GetRingBufferReadAvailable(rb) = 0
    THEN [rb |-> rb, n |-> 0, data |-> old]
    ELSE [rb |-> PaUtil_AdvanceRingBufferReadIndex(rb, 1),
          n  |-> 1,
          data |-> rb.buffer[ReadSlot(rb)]]

\* The unread records, oldest first.
Contents(rb) ==
    [i \in 1 .. PaUtil_GetRingBufferReadAvailable(rb) |->
        rb.buffer[(rb.readIndex + i - 1) % rb.bufferSize]]

IsPrefix(s, t) ==
    /\ Len(s) <= Len(t)
    /\ \A i \in 1 .. Len(s) : s[i] = t[i]

(***************************************************************************)
(* State.                                                                  *)
(***************************************************************************)
VARIABLES
    \* ---- QueueSpec ----
    q_rb,        \* the queue under test
    p_pc,        \* producer: "idle", "copy1", "copy2", "advance"
    p_rec,       \* record the producer is writing
    p_res,       \* result of the producer's last finished write (-1: none yet)
    p_full,      \* whether the queue was full when that write sampled it
    p_before,    \* unread records when that write sampled the queue
    c_pc,        \* consumer: "idle", "copy1", "copy2", "advance"
    c_out,       \* consumer's out_record
    c_res,       \* result of the consumer's last finished read (-1: none yet)
    c_empty,     \* whether the queue was empty when that read sampled it
    q_offered,   \* number of records offered so far
    q_accepted,  \* records of successful writes, in order
    q_returned,  \* records of successful reads, in order
    \* ---- Spec ----
    win,         \* AudiolizeWindow: "new", "running", "finalized"; the process
                 \* ended abnormally: "aborted"
    win_fft,     \* win->fft: an analyzer id, 0 for NULL
    driver,      \* AudioDriver: selected_index, selected_device, stream, freed;
                 \* PortAudio: streams open now, and most streams open at once
    in_rb,       \* audio_driver->ring_buffer and its data
    cb,          \* capture callback: hardware events so far, last return code
    ffts,        \* the AudiolizeFFT objects, by id
    threads,     \* each analyzer's worker thread and its GTask
    invokes,     \* main context: posted compute_bar_heights calls, by analyzer
    uaf,         \* set of resources touched after their release, or while
                 \* they were never acquired
    current_bar_heights, \* the static array of audiolize_fft_render (one band)
    last_call,   \* the last call of the driver's interface (DriverSpec) or
                 \* the last resize signal
    calc         \* ConfigSpec, BandSpec: the configuration and the arrays of
                 \* one analysis

qvars == << q_rb, p_pc, p_rec, p_res, p_full, p_before, c_pc, c_out, c_res,
            c_empty, q_offered, q_accepted, q_returned >>

svars == << win, win_fft, driver, in_rb, cb, ffts, threads, invokes, uaf,
           current_bar_heights, last_call, calc >>

vars == << qvars, svars >>

(***************************************************************************)
(* QueueSpec.  A record has two halves, copied one at a time; record n is  *)
(* <<n, n>>, so a torn record shows as two unequal halves.                 *)
(***************************************************************************)
Blank == << 0, 0 >>

QCaps == { Pow2(k) : k \in 0 .. MaxCapLog }

QInitQueue ==
    /\ q_rb \in { PaUtil_InitializeRingBuffer(c, Blank) : c \in QCaps }
    /\ p_pc = "idle"
    /\ p_rec = Blank
    /\ p_res = -1
    /\ p_full = FALSE
    /\ p_before = << >>
    /\ c_pc = "idle"
    /\ c_out = Blank
    /\ c_res = -1
    /\ c_empty = FALSE
    /\ q_offered = 0
    /\ q_accepted = << >>
    /\ q_returned = << >>

\* PaUtil_WriteRingBuffer, first part: sample the cursors, give up if full.
P_Begin ==
    /\ p_pc = "idle"
    /\ q_offered < MaxWrites
    /\ q_offered' = q_offered + 1
    /\ p_rec' = << q_offered + 1, q_offered + 1 >>
    /\ p_full' = (Len(Contents(q_rb)) = q_rb.bufferSize)
    /\ p_before' = Contents(q_rb)
    /\ IF PaUtil_GetRingBufferWriteAvailable(q_rb) = 0
       THEN /\ p_res' = 0
            /\ p_pc' = "idle"
       ELSE /\ p_res' = -1
            /\ p_pc' = "copy1"
    /\ UNCHANGED << q_rb, c_pc, c_out, c_res, c_empty, q_accepted, q_returned >>

\* memcpy of the record into the slot under the write cursor, in two halves;
\* the cursor moves only after the whole record is in place.
AfterFirstHalf_Mutant == "advance"

AfterFirstHalf == "copy2"

P_Copy1 ==
    /\ p_pc = "copy1"
    /\ q_rb' = [q_rb EXCEPT !.buffer[WriteSlot(q_rb)][1] = p_rec[1]]
    /\ p_pc' = AfterFirstHalf
    /\ UNCHANGED << p_rec, p_res, p_full, p_before, c_pc, c_out, c_res, c_empty,
                    q_offered, q_accepted, q_returned >>

P_Copy2 ==
    /\ p_pc = "copy2"
    /\ q_rb' = [q_rb EXCEPT !.buffer[WriteSlot(q_rb)][2] = p_rec[2]]
    /\ p_pc' = "advance"
    /\ UNCHANGED << p_rec, p_res, p_full, p_before, c_pc, c_out, c_res, c_empty,
                    q_offered, q_accepted, q_returned >>

\* Publish the record: move the write cursor, return 1.
P_Advance ==
    /\ p_pc = "advance"
    /\ q_rb' = PaUtil_AdvanceRingBufferWriteIndex(q_rb, 1)
    /\ p_res' = 1
    /\ q_accepted' = Append(q_accepted, p_rec)
    /\ p_pc' = "idle"
    /\ UNCHANGED << p_rec, p_full, p_before, c_pc, c_out, c_res, c_empty,
                    q_offered, q_returned >>

\* PaUtil_ReadRingBuffer, first part: sample the cursors, give up if empty.
C_Begin ==
    /\ c_pc = "idle"
    /\ c_empty' = (Len(Contents(q_rb)) = 0)
    /\ IF PaUtil_GetRingBufferReadAvailable(q_rb) = 0
       THEN /\ c_res' = 0
            /\ c_pc' = "idle"
       ELSE /\ c_res' = -1
            /\ c_pc' = "copy1"
    /\ UNCHANGED << q_rb, p_pc, p_rec, p_res, p_full, p_before, c_out,
                    q_offered, q_accepted, q_returned >>

C_Copy1 ==
    /\ c_pc = "copy1"
    /\ c_out' = [c_out EXCEPT ![1] = q_rb.buffer[ReadSlot(q_rb)][1]]
    /\ c_pc' = "copy2"
    /\ UNCHANGED << q_rb, p_pc, p_rec, p_res, p_full, p_before, c_res, c_empty,
                    q_offered, q_accepted, q_returned >>

C_Copy2 ==
    /\ c_pc = "copy2"
    /\ c_out' = [c_out EXCEPT ![2] = q_rb.buffer[ReadSlot(q_rb)][2]]
    /\ c_pc' = "advance"
    /\ UNCHANGED << q_rb, p_pc, p_rec, p_res, p_full, p_before, c_res, c_empty,
                    q_offered, q_accepted, q_returned >>

\* Release the slot: move the read cursor, return 1.
C_Advance ==
    /\ c_pc = "advance"
    /\ q_rb' = PaUtil_AdvanceRingBufferReadIndex(q_rb, 1)
    /\ c_res' = 1
    /\ q_returned' = Append(q_returned, c_out)
    /\ c_pc' = "idle"
    /\ UNCHANGED << p_pc, p_rec, p_res, p_full, p_before, c_out, c_empty,
                    q_offered, q_accepted >>

QNextQueue ==
    \/ P_Begin
    \/ P_Copy1
    \/ P_Copy2
    \/ P_Advance
    \/ C_Begin
    \/ C_Copy1
    \/ C_Copy2
    \/ C_Advance


(***************************************************************************)
(* Spec: the application.                                                  *)
(***************************************************************************)
FFTs == 1 .. MaxFFT

Devices == 0 .. (NumDevices - 1)

\* The samples of an audio frame are left out: a frame is quiet or loud, and so
\* is the band vector computed from it; besides there are the garbage read from
\* released memory and the slot never written.  Of the FREQUENCIES bands, all
\* handled alike by every loop, the model carries one.
NoFrame == "none"

AudioFrame == "frame"

LoudFrame == "loud frame"

Garbage == "garbage"

\* A frame as the stream opened on device dev delivers it.
FrameFrom(dev) == IF dev = 0 THEN AudioFrame ELSE "frame of another device"

BandVector(frame) ==
    CASE frame = AudioFrame -> "bands"
      [] frame = LoudFrame  -> "loud bands"
      [] frame \in {FrameFrom(0), FrameFrom(1)} -> "bands"
      [] OTHER              -> "garbage bands"

\* fft_output[i] * 10 of a band vector, counted in halves: 1/2 for a quiet
\* frame, 3/2 for a loud one, anything for garbage.
Gain(vec) ==
    CASE vec = "bands"      -> {1}
      [] vec = "loud bands" -> {3}
      [] OTHER              -> 0 .. 3

\* (int)ceil(fft_output[i] * 10 * height)
BarHeights(vec, height) == { ((g * height) + 1) \div 2 : g \in Gain(vec) }

\* cairo_surface_t *surface
NullSurface == [null |-> TRUE, height |-> 0]

cairo_image_surface_create(height) == [null |-> FALSE, height |-> height]

\* fps_diff = ((double)FRAMES_PER_BUFFER / (double)sample_rate) * SKIP_SAMPLES * FPS,
\* kept as a fraction.
FpsDiff(sample_rate) ==
    [num |-> FRAMES_PER_BUFFER * SKIP_SAMPLES * FPS, den |-> sample_rate]

\* Conversion of a double to int: the fraction is cut off, toward zero.
TruncDiv(a, b) == IF a >= 0 THEN a \div b ELSE -((-a) \div b)

\* One band of one render tick:
\*   bar_diff = target - bar_height; bar_diff /= fps_diff; bar_height += bar_diff;
\* the sum is a double, converted back to int.
SmoothStep_Mutant(bar_height, target, fps_diff) ==
    TruncDiv((bar_height * fps_diff.den) + ((target - bar_height) * fps_diff.num),
             fps_diff.den)

SmoothStep(bar_height, target, fps_diff) ==
    TruncDiv((bar_height * fps_diff.num) + ((target - bar_height) * fps_diff.den),
             fps_diff.num)

\* selected_device->defaultSampleRate of the devices PortAudio reports.
defaultSampleRate(dev) ==
    CASE dev = 0 -> 44100
      [] dev = 1 -> 16000
      [] OTHER   -> 96000

NullStream == [handle |-> FALSE, dev |-> -1, started |-> FALSE]

\* unsigned int counter: 32 bits, held as two 16-bit limbs.
Limb == Pow2(16)

UIntZero == [hi |-> 0, lo |-> 0]

UIntInc(c) ==
    IF c.lo = Limb - 1
    THEN [hi |-> (c.hi + 1) % Limb, lo |-> 0]
    ELSE [hi |-> c.hi, lo |-> c.lo + 1]

UIntMod(c, n) == (((c.hi % n) * (Limb % n)) + (c.lo % n)) % n

\* What an analyzer acquires in audiolize_fft_setup and releases in
\* audiolize_fft_finalize: the output queue with its storage, the frame
\* buffer, the transform's buffers and plan, the cancellable, the render timer.
Resources == {"out_rb", "input_data", "fftw", "canellable", "timeout"}

NoFFT ==
    [ state      |-> "none",
      ref_count  |-> 0,
      canellable |-> FALSE,
      input_data |-> NoFrame,
      out_rb     |-> PaUtil_InitializeRingBuffer(RING_BUFFER_SIZE, NoFrame),
      surface    |-> NullSurface,
      bar_heights |-> 0,
      fps_diff   |-> [num |-> 0, den |-> 1],
      timeout    |-> "none",
      ticks      |-> 0,
      drawing_area |-> FALSE,
      fftw_plan  |-> FALSE,
      surfaces   |-> 0,
      acquired   |-> [r \in Resources |-> 0],
      released   |-> [r \in Resources |-> 0] ]

NoThread ==
    [ pc          |-> "none",
      task        |-> "none",
      counter     |-> UIntZero,
      output      |-> NoFrame,
      frames_read |-> 0,
      analyzed_at |-> << >>,
      late        |-> 0,
      written     |-> [vec |-> NoFrame, surface |-> FALSE] ]

\* ---- audio driver ------------------------------------------------------

\* audio_driver->devices[i]: the device, or whatever lies outside the array.
DeviceAt(i) == [valid |-> i \in Devices, index |-> i]

\* audio_driver_new, the path that returns a driver.
audio_driver_new ==
    [ selected_index  |-> 0,
      selected_device |-> DeviceAt(0),
      stream          |-> NullStream,
      freed           |-> FALSE,
      open_streams    |-> 0,
      peak_streams    |-> 0 ]

Pa_OpenStream_Mutant(d, open_ok) ==
    IF open_ok
    THEN [d EXCEPT !.stream = [handle |-> TRUE, dev |-> 0, started |-> FALSE],
                   !.open_streams = @ + 1,
                   !.peak_streams = IF d.open_streams + 1 > @
                                    THEN d.open_streams + 1 ELSE @]
    ELSE d

\* Pa_OpenStream(&stream, ...): on success a new stream is open and *stream is
\* its handle, whatever *stream was; on failure *stream is left as it is.  A
\* device index that names no device is refused.
Pa_OpenStream(d, open_ok) ==
    IF open_ok /\ d.selected_index \in Devices
    THEN [d EXCEPT !.stream = [handle |-> TRUE, dev |-> d.selected_index,
                               started |-> FALSE],
                   !.open_streams = @ + 1,
                   !.peak_streams = IF d.open_streams + 1 > @
                                    THEN d.open_streams + 1 ELSE @]
    ELSE d

\* Pa_StartStream(stream): fails on a NULL stream.
Pa_StartStream(d, start_ok) ==
    IF d.stream.handle /\ start_ok
    THEN [d EXCEPT !.stream.started = TRUE]
    ELSE d

audio_driver_close_stream_Mutant(d) ==
    IF ~d.stream.handle
    THEN d
    ELSE [d EXCEPT !.stream.started = FALSE, !.open_streams = @ - 1]

\* Pa_StopStream, Pa_CloseStream, stream = NULL.
audio_driver_close_stream(d) ==
    IF ~d.stream.handle
    THEN d
    ELSE [d EXCEPT !.stream = NullStream, !.open_streams = @ - 1]

CloseIfOpen_Mutant(d) == d

\* if (audio_driver->stream != NULL) audio_driver_close_stream(audio_driver);
CloseIfOpen(d) == IF d.stream.handle THEN audio_driver_close_stream(d) ELSE d

\* Pa_OpenStream and Pa_StartStream either succeed or fail (open_ok, start_ok);
\* a failure is printed and nothing else: Pa_StartStream is called either way,
\* and a stream that does not start stays open.
audio_driver_open_stream(d, open_ok, start_ok) ==
    Pa_StartStream(Pa_OpenStream(CloseIfOpen(d), open_ok), start_ok)

\* The range check: device_index >= num_devices is refused, nothing else.
InRange(device_index) == ~(device_index >= NumDevices)

audio_driver_set_selected_device(d, device_index, open_ok, start_ok) ==
    IF ~InRange(device_index)
    THEN d
    ELSE audio_driver_open_stream(
             audio_driver_close_stream(
                 [d EXCEPT !.selected_index = device_index,
                           !.selected_device = DeviceAt(device_index)]),
             open_ok, start_ok)

audio_driver_close(d) ==
    [audio_driver_close_stream(d) EXCEPT !.freed = TRUE]

\* The hardware signals a full buffer: one write of one frame, nothing else.
input_stream_cb_Mutant(limit, input) ==
    /\ driver.stream.handle
    /\ driver.stream.started
    /\ cb.calls < limit
    /\ LET w == PaUtil_WriteRingBuffer(in_rb, input)
       IN  /\ in_rb' = IF w.n = 1 THEN w.rb
                       ELSE PaUtil_AdvanceRingBufferReadIndex(in_rb, 1)
           /\ cb' = [calls |-> cb.calls + 1, ret |-> w.n]
    /\ UNCHANGED << win, win_fft, driver, ffts, threads, invokes, uaf, qvars, current_bar_heights, last_call, calc >>

input_stream_cb(limit, input) ==
    /\ driver.stream.handle
    /\ driver.stream.started
    /\ cb.calls < limit
    /\ in_rb' = PaUtil_WriteRingBuffer(in_rb, input).rb
    /\ cb' = [calls |-> cb.calls + 1, ret |-> paContinue]
    /\ UNCHANGED << win, win_fft, driver, ffts, threads, invokes, uaf, qvars, current_bar_heights, last_call, calc >>

\* ---- analyzer object ---------------------------------------------------

\* g_task_new(self, ...) keeps a reference to its source object until the task
\* itself is released, after the completion callback has run.
g_task_new_Mutant(ref_count) == ref_count

g_task_new(ref_count) == ref_count + 1

\* audiolize_fft_new + audiolize_fft_setup: the object, its output queue, no
\* surface yet, the pointer to the drawing area with a weak reference
\* registered on it, the render timer, the cancellable, and the task whose
\* thread runs audiolize_fft_thread_cb.  fftw_malloc and fftw_plan_dft_r2c_1d
\* may return NULL (fftw_ok false); their results are not looked at.
audiolize_fft_setup(sample_rate, fftw_ok) ==
    [ state      |-> "live",
      ref_count  |-> g_task_new(1),
      canellable |-> FALSE,
      input_data |-> NoFrame,
      out_rb     |-> PaUtil_InitializeRingBuffer(RING_BUFFER_SIZE, NoFrame),
      surface    |-> NullSurface,
      bar_heights |-> 0,
      fps_diff   |-> FpsDiff(sample_rate),
      timeout    |-> "scheduled",
      ticks      |-> 0,
      drawing_area |-> TRUE,
      fftw_plan  |-> fftw_ok,
      surfaces   |-> 0,
      acquired   |-> [r \in Resources |->
                        IF r = "fftw" /\ ~fftw_ok THEN 0 ELSE 1],
      released   |-> [r \in Resources |-> 0] ]

\* audiolize_fft_new returns the object whatever happened in setup.
audiolize_fft_new(sample_rate) == audiolize_fft_setup(sample_rate, TRUE)

thread_start == [NoThread EXCEPT !.pc = "top", !.task = "running"]

\* The thread function returned: its locals are gone, the task completes.
thread_return == [NoThread EXCEPT !.pc = "exited", !.task = "returned"]

unref_drawing_area_Mutant(f) == f

\* The weak reference's callback, run when the drawing area is disposed of.
unref_drawing_area(f) == [f EXCEPT !.drawing_area = FALSE]

audiolize_fft_cancel_task(f) == [f EXCEPT !.canellable = TRUE]

\* The object's memory is released: nothing of it is left but the fact, and
\* the count of what was acquired and released.  fftw_destroy_plan and
\* fftw_free do nothing with NULL; g_source_remove is called whether the
\* timer still exists or not.
audiolize_fft_finalize(f) ==
    [NoFFT EXCEPT !.state = "finalized",
                  !.acquired = f.acquired,
                  !.released = [r \in Resources |->
                                  IF r = "fftw" /\ f.acquired[r] = 0
                                  THEN f.released[r]
                                  ELSE f.released[r] + 1]]

\* g_object_unref / g_clear_object: the last reference finalizes the object.
g_object_unref(f) ==
    IF f.ref_count <= 1
    THEN audiolize_fft_finalize(f)
    ELSE [f EXCEPT !.ref_count = @ - 1]

Created == { a \in FFTs : ffts[a].state # "none" }

\* ---- worker thread: audiolize_fft_thread_cb ----------------------------

SkipFrame_Mutant(counter) == UIntMod(counter, SKIP_SAMPLES) # 1

\* (++counter % SKIP_SAMPLES) != 0, on the already incremented counter.
SkipFrame(counter) == UIntMod(counter, SKIP_SAMPLES) # 0

Late(a) == IF ffts[a].canellable THEN 1 ELSE 0

\* Where the loop goes on when the read returned nothing.
AfterEmptyRead_Mutant == "read"

AfterEmptyRead == "top"

\* Top of the loop: leave if cancelled.
thread_check(a) ==
    /\ threads[a].pc = "top"
    /\ threads' = IF ffts[a].canellable
                   THEN [threads EXCEPT ![a] = thread_return]
                   ELSE [threads EXCEPT ![a].pc = "read"]
    /\ UNCHANGED << win, win_fft, driver, in_rb, cb, ffts, invokes, uaf, qvars, current_bar_heights, last_call, calc >>

\* Read one frame; none: next iteration; count it; skipped: next iteration;
\* otherwise transform it and map it to the band vector.
thread_read(a) ==
    /\ threads[a].pc = "read"
    /\ \E garbage \in {0, 1} :
         LET r  == IF driver.freed
                   THEN [rb |-> in_rb, n |-> garbage, data |-> Garbage]
                   ELSE PaUtil_ReadRingBuffer(in_rb, ffts[a].input_data)
             c  == UIntInc(threads[a].counter)
             lt == IF threads[a].late < 4 THEN threads[a].late + Late(a)
                   ELSE threads[a].late
         IN  /\ driver.freed \/ garbage = 0
             /\ in_rb' = r.rb
             /\ uaf' = (IF driver.freed THEN uaf \cup {"audio_rb"} ELSE uaf)
                         \cup (IF r.n = 1 /\ ~SkipFrame(c) /\ ~ffts[a].fftw_plan
                               THEN {"fftw_plan"} ELSE {})
             /\ ffts' = [ffts EXCEPT ![a].input_data = r.data]
             /\ threads' =
                  IF r.n = 0
                  THEN [threads EXCEPT ![a].pc = AfterEmptyRead, ![a].late = lt]
                  ELSE IF SkipFrame(c)
                  THEN [threads EXCEPT ![a].pc = "top", ![a].late = lt,
                                       ![a].counter = c,
                                       ![a].frames_read = @ + 1]
                  ELSE [threads EXCEPT ![a].pc = "emit", ![a].late = lt,
                                       ![a].counter = c,
                                       ![a].frames_read = @ + 1,
                                       ![a].analyzed_at = Append(@, threads[a].frames_read + 1),
                                       ![a].output = BandVector(r.data)]
    /\ UNCHANGED << win, win_fft, driver, cb, invokes, qvars, current_bar_heights, last_call, calc >>

\* if (elements_written == 1) g_main_context_invoke(...): the calls of
\* audiolize_fft_compute_bar_heights posted to the main context and not yet run.
NotifyMainContext_Mutant(pending, elements_written) == pending + 1

NotifyMainContext(pending, elements_written) ==
    IF elements_written = 1 THEN pending + 1 ELSE pending

thread_emit_Mutant(a) ==
    /\ threads[a].pc = "emit"
    /\ ffts' = [ffts EXCEPT ![a].bar_heights =
                   IF ffts[a].surface.null THEN @
                   ELSE CHOOSE h \in BarHeights(threads[a].output,
                                                ffts[a].surface.height) : TRUE]
    /\ threads' = [threads EXCEPT ![a].pc = "top"]
    /\ UNCHANGED << win, win_fft, driver, in_rb, cb, invokes, uaf, qvars, current_bar_heights, last_call, calc >>

\* Write the band vector to the output queue; post one call of
\* audiolize_fft_compute_bar_heights to the main context if it was written.
thread_emit(a) ==
    /\ threads[a].pc = "emit"
    /\ LET w == PaUtil_WriteRingBuffer(ffts[a].out_rb, threads[a].output)
       IN  /\ ffts' = [ffts EXCEPT ![a].out_rb = w.rb]
           /\ invokes' = [invokes EXCEPT ![a] = NotifyMainContext(@, w.n)]
    /\ threads' = [threads EXCEPT
                     ![a].pc = "top",
                     ![a].late = IF @ < 4 THEN @ + Late(a) ELSE @,
                     ![a].written =
                        IF PaUtil_WriteRingBuffer(ffts[a].out_rb,
                                                  threads[a].output).n = 1
                        THEN [vec |-> threads[a].output,
                              surface |-> ~ffts[a].surface.null]
                        ELSE @]
    /\ UNCHANGED << win, win_fft, driver, in_rb, cb, uaf, qvars, current_bar_heights, last_call, calc >>

audiolize_fft_thread_cb(a) ==
    \/ thread_check(a)
    \/ thread_read(a)
    \/ thread_emit(a)

\* ---- main context ------------------------------------------------------

audiolize_fft_compute_bar_heights_Mutant(a) ==
    /\ invokes[a] > 0
    /\ invokes' = [invokes EXCEPT ![a] = @ - 1]
    /\ ffts' = [ffts EXCEPT ![a].out_rb =
                   PaUtil_ReadRingBuffer(PaUtil_ReadRingBuffer(@, NoFrame).rb, NoFrame).rb]
    /\ UNCHANGED << win, win_fft, driver, in_rb, cb, threads, uaf, qvars, current_bar_heights, last_call, calc >>

\* A posted call runs: it reads one band vector from the output queue; if
\* there was one and there is a surface, the vector scaled to the height of
\* the surface becomes the target height.
audiolize_fft_compute_bar_heights(a) ==
    /\ invokes[a] > 0
    /\ invokes' = [invokes EXCEPT ![a] = @ - 1]
    /\ LET r == PaUtil_ReadRingBuffer(ffts[a].out_rb, NoFrame)
       IN  \E bar_height \in
                 IF r.n = 0 \/ ffts[a].surface.null
                 THEN {ffts[a].bar_heights}
                 ELSE BarHeights(r.data, ffts[a].surface.height) :
               ffts' = [ffts EXCEPT ![a].out_rb = r.rb,
                                    ![a].bar_heights = bar_height]
    /\ UNCHANGED << win, win_fft, driver, in_rb, cb, threads, uaf, qvars, current_bar_heights, last_call, calc >>

\* The render timer fires.  Without a surface the handler returns
\* G_SOURCE_REMOVE, which ends the timer; otherwise the displayed height moves
\* toward the target height, and the drawing area, if the pointer to it is
\* not NULL, is asked to redraw.
audiolize_fft_render(a) ==
    /\ ffts[a].timeout = "scheduled"
    /\ uaf' = IF ~ffts[a].surface.null /\ ffts[a].drawing_area /\ win = "finalized"
              THEN uaf \cup {"drawing_area"}
              ELSE uaf
    /\ IF ffts[a].surface.null
       THEN /\ ffts' = [ffts EXCEPT ![a].timeout = "removed",
                                    ![a].released["timeout"] = @ + 1]
            /\ UNCHANGED current_bar_heights
       ELSE /\ current_bar_heights' =
                   SmoothStep(current_bar_heights, ffts[a].bar_heights,
                              ffts[a].fps_diff)
            /\ ffts' = [ffts EXCEPT ![a].ticks = IF @ < MaxTicks THEN @ + 1 ELSE @]
    /\ UNCHANGED << win, win_fft, driver, in_rb, cb, threads, invokes, qvars, last_call, calc >>

audiolize_fft_resize_surface_Mutant(f, height) ==
    [f EXCEPT !.surface = cairo_image_surface_create(height),
              !.surfaces = @ + 1]

\* The surface, if any, is destroyed, and one of the new size created;
\* surfaces counts the cairo surfaces of the analyzer that exist.
audiolize_fft_resize_surface(f, height) ==
    [f EXCEPT !.surface = cairo_image_surface_create(height),
              !.surfaces = (IF f.surface.null THEN @ ELSE @ - 1) + 1]

\* The drawing area's resize signal, with the window's analyzer.
drawing_area_resize_cb(height) ==
    /\ win = "running"
    /\ win_fft # 0
    /\ ffts' = [ffts EXCEPT ![win_fft] = audiolize_fft_resize_surface(@, height)]
    /\ last_call' = [ op |-> "resize", height |-> height ]
    /\ UNCHANGED << win, win_fft, driver, in_rb, cb, threads, invokes, uaf, qvars, current_bar_heights, calc >>

\* The task's completion runs on the main context, after the calls the thread
\* posted before it returned; then the task and its reference to the analyzer
\* are released.
audiolize_fft_finished_cb(a) ==
    /\ threads[a].task = "returned"
    /\ invokes[a] = 0
    /\ threads' = [threads EXCEPT ![a].task = "done"]
    /\ ffts' = [ffts EXCEPT ![a] = g_object_unref(@)]
    /\ UNCHANGED << win, win_fft, driver, in_rb, cb, invokes, uaf, qvars, current_bar_heights, last_call, calc >>

window_init_Mutant(new_ok, open_ok, start_ok, fftw_ok) ==
    /\ win = "new"
    /\ win' = IF new_ok THEN "running" ELSE "aborted"
    /\ driver' = audio_driver_open_stream(audio_driver_new, open_ok, start_ok)
    /\ ffts' = [ffts EXCEPT ![1] = audiolize_fft_setup(defaultSampleRate(0), fftw_ok)]
    /\ threads' = [threads EXCEPT ![1] = thread_start]
    /\ win_fft' = 1
    /\ UNCHANGED << in_rb, cb, invokes, uaf, qvars, current_bar_heights, last_call, calc >>

\* audiolize_window_init: driver, stream on device 0, first analyzer.
\* audio_driver_new returning NULL (new_ok false: PortAudio does not start, no
\* device, or the queue is not set up) aborts the program.
window_init(new_ok, open_ok, start_ok, fftw_ok) ==
    /\ win = "new"
    /\ IF new_ok
       THEN /\ win' = "running"
            /\ driver' = audio_driver_open_stream(audio_driver_new, open_ok, start_ok)
            /\ ffts' = [ffts EXCEPT ![1] = audiolize_fft_setup(defaultSampleRate(0), fftw_ok)]
            /\ threads' = [threads EXCEPT ![1] = thread_start]
            /\ win_fft' = 1
       ELSE /\ win' = "aborted"
            /\ UNCHANGED << driver, ffts, threads, win_fft >>
    /\ UNCHANGED << in_rb, cb, invokes, uaf, qvars, current_bar_heights, last_call, calc >>

\* audiolize_window_init with the transform's memory and plan there.
audiolize_window_init(new_ok, open_ok, start_ok) ==
    window_init(new_ok, open_ok, start_ok, TRUE)

\* The drop-down selects another device: switch the stream, cancel and drop
\* the analyzer, make a new one on the same input queue.
selected_device_changed_cb(selected, open_ok, start_ok) ==
    /\ win = "running"
    /\ selected # driver.selected_index
    /\ Cardinality(Created) < MaxFFT
    /\ LET new == Cardinality(Created) + 1
           f1  == [ffts EXCEPT ![win_fft] = audiolize_fft_cancel_task(@)]
           f2  == [f1 EXCEPT ![win_fft] = g_object_unref(@)]
       IN  /\ driver' = audio_driver_set_selected_device(driver, selected,
                                                         open_ok, start_ok)
           /\ ffts' = [f2 EXCEPT ![new] =
                          audiolize_fft_new(defaultSampleRate(driver'.selected_index))]
           /\ threads' = [threads EXCEPT ![new] = thread_start]
           /\ win_fft' = new
    /\ UNCHANGED << win, in_rb, cb, invokes, uaf, qvars, current_bar_heights, last_call, calc >>

\* The window is destroyed.  audiolize_window_dispose: the template's widgets
\* go, the drawing area among them, and the weak references registered on it
\* run their callback, each on the analyzer it was registered with, released
\* or not.  audiolize_window_finalize: cancel, drop the analyzer, close the
\* driver.
audiolize_window_finalize ==
    /\ win = "running"
    /\ win' = "finalized"
    /\ LET disposed == [a \in FFTs |-> IF ffts[a].state = "live"
                                       THEN unref_drawing_area(ffts[a])
                                       ELSE ffts[a]]
       IN  ffts' = [disposed EXCEPT ![win_fft] =
                       g_object_unref(audiolize_fft_cancel_task(@))]
    /\ uaf' = IF \E a \in FFTs : ffts[a].state = "finalized"
              THEN uaf \cup {"fft"}
              ELSE uaf
    /\ win_fft' = 0
    /\ driver' = audio_driver_close(driver)
    /\ UNCHANGED << in_rb, cb, threads, invokes, qvars, current_bar_heights, last_call, calc >>

\* ---- the driver's interface, called in any order --------------------------

NoCall ==
    [ op |-> "none", device_index |-> 0, open_ok |-> FALSE, start_ok |-> FALSE,
      before |-> audio_driver_new ]

call_open_stream(open_ok, start_ok) ==
    /\ win = "new"
    /\ driver' = audio_driver_open_stream(driver, open_ok, start_ok)
    /\ last_call' = [ op |-> "open_stream", device_index |-> 0, open_ok |-> open_ok,
                      start_ok |-> start_ok, before |-> driver ]
    /\ UNCHANGED << win, win_fft, in_rb, cb, ffts, threads, invokes, uaf, qvars,
                    current_bar_heights, calc >>

call_close_stream ==
    /\ win = "new"
    /\ driver' = audio_driver_close_stream(driver)
    /\ last_call' = [ op |-> "close_stream", device_index |-> 0, open_ok |-> FALSE,
                      start_ok |-> FALSE, before |-> driver ]
    /\ UNCHANGED << win, win_fft, in_rb, cb, ffts, threads, invokes, uaf, qvars,
                    current_bar_heights, calc >>

\* With an index that passes the range check and names no device, the read of
\* devices[device_index] and of the name behind it is outside the array: the
\* process ends there (fault), or goes on with what it read.
call_set_selected_device(device_index, open_ok, start_ok, fault) ==
    /\ win = "new"
    /\ fault => (InRange(device_index) /\ device_index \notin Devices)
    /\ IF fault
       THEN /\ win' = "aborted"
            /\ driver' = [driver EXCEPT !.selected_index = device_index,
                                        !.selected_device = DeviceAt(device_index)]
       ELSE /\ win' = win
            /\ driver' = audio_driver_set_selected_device(driver, device_index,
                                                          open_ok, start_ok)
    /\ last_call' = [ op |-> "set_selected_device", device_index |-> device_index,
                      open_ok |-> open_ok, start_ok |-> start_ok, before |-> driver ]
    /\ UNCHANGED << win_fft, in_rb, cb, ffts, threads, invokes, uaf, qvars,
                    current_bar_heights, calc >>

\* No analysis is under way.
NoCalc == [ kind |-> "none" ]

SBase ==
    /\ win = "new"
    /\ win_fft = 0
    /\ driver = audio_driver_new
    /\ in_rb = PaUtil_InitializeRingBuffer(RING_BUFFER_SIZE, NoFrame)
    /\ cb = [calls |-> 0, ret |-> paContinue]
    /\ ffts = [a \in FFTs |-> NoFFT]
    /\ threads = [a \in FFTs |-> NoThread]
    /\ invokes = [a \in FFTs |-> 0]
    /\ uaf = {}
    /\ current_bar_heights = 0
    /\ last_call = NoCall

SInit == SBase /\ calc = NoCalc

QFixed ==
    /\ QInitQueue
    /\ q_rb.bufferSize = 1

Init == SInit /\ QFixed

Next ==
    \/ \E ok \in BOOLEAN \X BOOLEAN \X BOOLEAN :
           audiolize_window_init(ok[1], ok[2], ok[3])
    \/ \E d \in Devices, ok \in BOOLEAN \X BOOLEAN :
           selected_device_changed_cb(d, ok[1], ok[2])
    \/ audiolize_window_finalize
    \/ input_stream_cb(MaxFrames, AudioFrame)
    \/ \E a \in FFTs : audiolize_fft_thread_cb(a)
    \/ \E a \in FFTs : audiolize_fft_compute_bar_heights(a)
    \/ \E a \in FFTs : audiolize_fft_finished_cb(a)

Spec == Init /\ [][Next]_vars

\* The pipeline left alone: no device switch, no shutdown.
PipelineNext ==
    \/ \E ok \in BOOLEAN \X BOOLEAN \X BOOLEAN :
           audiolize_window_init(ok[1], ok[2], ok[3])
    \/ input_stream_cb(MaxRunFrames, AudioFrame)
    \/ \E a \in FFTs : audiolize_fft_thread_cb(a)
    \/ \E a \in FFTs : audiolize_fft_compute_bar_heights(a)

PipelineSpec == Init /\ [][PipelineNext]_vars

\* The pipeline with the drawing area: resize events and render ticks, frames
\* quiet or loud.
RenderNext ==
    \/ \E ok \in BOOLEAN \X BOOLEAN \X BOOLEAN :
           audiolize_window_init(ok[1], ok[2], ok[3])
    \/ \E height \in 0 .. MaxSurfaceHeight : drawing_area_resize_cb(height)
    \/ \E input \in {AudioFrame, LoudFrame} : input_stream_cb(MaxRenderFrames, input)
    \/ \E a \in FFTs : audiolize_fft_thread_cb(a)
    \/ \E a \in FFTs : audiolize_fft_compute_bar_heights(a)
    \/ \E a \in FFTs : audiolize_fft_render(a)

RenderSpec == Init /\ [][RenderNext]_vars

\* Render ticks alone, from every target height, displayed height and sample
\* rate: the analyzer has a surface, its target height stays as it is.
SmoothRates == {16000, 44100, 48000, 96000}

SmoothInit ==
    /\ QFixed
    /\ win = "running"
    /\ win_fft = 1
    /\ driver = audio_driver_open_stream(audio_driver_new, TRUE, TRUE)
    /\ in_rb = PaUtil_InitializeRingBuffer(RING_BUFFER_SIZE, NoFrame)
    /\ cb = [calls |-> 0, ret |-> paContinue]
    /\ \E sample_rate \in SmoothRates, target \in 0 .. MaxBar :
           ffts = [a \in FFTs |->
                     IF a = 1
                     THEN [audiolize_fft_new(sample_rate) EXCEPT
                             !.surface = cairo_image_surface_create(MaxSurfaceHeight),
                             !.surfaces = 1,
                             !.bar_heights = target]
                     ELSE NoFFT]
    /\ threads = [a \in FFTs |-> IF a = 1 THEN thread_start ELSE NoThread]
    /\ invokes = [a \in FFTs |-> 0]
    /\ uaf = {}
    /\ current_bar_heights \in 0 .. MaxBar
    /\ last_call = NoCall
    /\ calc = NoCalc

SmoothNext == \E a \in FFTs : audiolize_fft_render(a)

SmoothSpec == SmoothInit /\ [][SmoothNext]_vars

\* The timer keeps firing as long as the main loop runs.
SmoothFairSpec == SmoothSpec /\ WF_vars(SmoothNext)

\* Device switches with every frame marked by the device its stream was
\* opened on.
SwitchNext ==
    \/ \E ok \in BOOLEAN \X BOOLEAN \X BOOLEAN :
           audiolize_window_init(ok[1], ok[2], ok[3])
    \/ \E d \in Devices, ok \in BOOLEAN \X BOOLEAN :
           selected_device_changed_cb(d, ok[1], ok[2])
    \/ input_stream_cb(MaxSwitchFrames, FrameFrom(driver.stream.dev))
    \/ \E a \in FFTs : audiolize_fft_thread_cb(a)
    \/ \E a \in FFTs : audiolize_fft_compute_bar_heights(a)
    \/ \E a \in FFTs : audiolize_fft_finished_cb(a)

SwitchSpec == Init /\ [][SwitchNext]_vars

\* The application with its drawing area, up to the destruction of the window.
TeardownNext ==
    \/ \E ok \in BOOLEAN \X BOOLEAN \X BOOLEAN :
           audiolize_window_init(ok[1], ok[2], ok[3])
    \/ drawing_area_resize_cb(MaxSurfaceHeight)
    \/ audiolize_window_finalize
    \/ input_stream_cb(MaxFrames, AudioFrame)
    \/ \E a \in FFTs : audiolize_fft_thread_cb(a)
    \/ \E a \in FFTs : audiolize_fft_compute_bar_heights(a)
    \/ \E a \in FFTs : audiolize_fft_render(a)
    \/ \E a \in FFTs : audiolize_fft_finished_cb(a)

TeardownSpec == Init /\ [][TeardownNext]_vars

\* Construction of the window with every failure the code can meet, and the
\* pipeline after it.
SetupNext ==
    \/ \E ok \in BOOLEAN \X BOOLEAN \X BOOLEAN \X BOOLEAN :
           window_init(ok[1], ok[2], ok[3], ok[4])
    \/ input_stream_cb(MaxFrames, AudioFrame)
    \/ \E a \in FFTs : audiolize_fft_thread_cb(a)
    \/ \E a \in FFTs : audiolize_fft_compute_bar_heights(a)
    \/ \E a \in FFTs : audiolize_fft_render(a)

SetupSpec == Init /\ [][SetupNext]_vars

\* A driver just constructed, its interface called in any order, with any
\* index a caller can pass: -1 is what the empty selection of the drop-down
\* (GTK_INVALID_LIST_POSITION) becomes as a PaDeviceIndex.
DriverNext ==
    \/ \E ok \in BOOLEAN \X BOOLEAN : call_open_stream(ok[1], ok[2])
    \/ call_close_stream
    \/ \E device_index \in -1 .. NumDevices, ok \in BOOLEAN \X BOOLEAN, fault \in BOOLEAN :
           call_set_selected_device(device_index, ok[1], ok[2], fault)

DriverSpec == Init /\ [][DriverNext]_vars

\* The pipeline with a drawing area of one size, and a main context that
\* goes on running the calls posted to it.
DrainNext ==
    \/ \E ok \in BOOLEAN \X BOOLEAN \X BOOLEAN :
           audiolize_window_init(ok[1], ok[2], ok[3])
    \/ drawing_area_resize_cb(MaxSurfaceHeight)
    \/ \E input \in {AudioFrame, LoudFrame} : input_stream_cb(MaxRenderFrames, input)
    \/ \E a \in FFTs : audiolize_fft_thread_cb(a)
    \/ \E a \in FFTs : audiolize_fft_compute_bar_heights(a)

DrainSpec ==
    /\ Init
    /\ [][DrainNext]_vars
    /\ \A a \in FFTs : WF_vars(audiolize_fft_compute_bar_heights(a))

\* The application with every outcome of the analyzer's setup.
LifecycleNext ==
    \/ \E ok \in BOOLEAN \X BOOLEAN \X BOOLEAN \X BOOLEAN :
           window_init(ok[1], ok[2], ok[3], ok[4])
    \/ \E d \in Devices, ok \in BOOLEAN \X BOOLEAN :
           selected_device_changed_cb(d, ok[1], ok[2])
    \/ audiolize_window_finalize
    \/ input_stream_cb(MaxFrames, AudioFrame)
    \/ \E a \in FFTs : audiolize_fft_thread_cb(a)
    \/ \E a \in FFTs : audiolize_fft_compute_bar_heights(a)
    \/ \E a \in FFTs : audiolize_fft_finished_cb(a)

LifecycleSpec == Init /\ [][LifecycleNext]_vars

(***************************************************************************)
(* ConfigSpec: the analyzer class built with a pair (FRAMES_PER_BUFFER,    *)
(* NYQUIST_BIN), registered at the first g_object_new, then analysing.     *)
(***************************************************************************)
Configs ==
    { << FRAMES_PER_BUFFER, NYQUIST_BIN >>,
      << FRAMES_PER_BUFFER, NYQUIST_BIN_literal >> }
        \cup ((1 .. MaxConfig) \X (1 .. MaxConfig))

\* The condition of the g_assert of audiolize_fft_class_init.
class_init_assert_Mutant(frames_per_buffer, nyquist_bin) ==
    frames_per_buffer \div 2 = nyquist_bin

class_init_assert(frames_per_buffer, nyquist_bin) ==
    frames_per_buffer = nyquist_bin * 2

\* First construction of an analyzer: the class is initialised; a failed
\* g_assert aborts the process.
audiolize_fft_class_init ==
    /\ calc.kind = "config"
    /\ calc.class = "unregistered"
    /\ calc' = [calc EXCEPT !.class =
                  IF class_init_assert(calc.frames_per_buffer, calc.nyquist_bin)
                  THEN "ready" ELSE "aborted"]
    /\ UNCHANGED << win, win_fft, driver, in_rb, cb, ffts, threads, invokes, uaf,
                    qvars, current_bar_heights, last_call >>

\* The worker of an analyzer of a registered class transforms one frame and
\* computes the magnitude of NYQUIST_BIN bins.
fftw_execute_frame ==
    /\ calc.kind = "config"
    /\ calc.class = "ready"
    /\ calc.analysed < MaxFrames
    /\ calc' = [calc EXCEPT !.analysed = @ + 1]
    /\ UNCHANGED << win, win_fft, driver, in_rb, cb, ffts, threads, invokes, uaf,
                    qvars, current_bar_heights, last_call >>

ConfigInit ==
    /\ SBase
    /\ QFixed
    /\ \E pair \in Configs :
           calc = [ kind |-> "config", frames_per_buffer |-> pair[1],
                    nyquist_bin |-> pair[2], class |-> "unregistered",
                    analysed |-> 0 ]

ConfigNext ==
    \/ audiolize_fft_class_init
    \/ fftw_execute_frame

ConfigSpec == ConfigInit /\ [][ConfigNext]_vars

(***************************************************************************)
(* BandSpec: the band mapping of one analysed frame, from the magnitude    *)
(* array to the band vector, at each sample rate.                          *)
(***************************************************************************)
\* (int)floor(frequency * fs_n), fs_n = FRAMES_PER_BUFFER / sample_rate.
Bin(frequency, sample_rate) == (frequency * FRAMES_PER_BUFFER) \div sample_rate

\* The values of j of the loop that fills output[i - 1]; i = FREQUENCIES is
\* the loop after the last boundary.
BandBins_Mutant(i, sample_rate) ==
    IF i < FREQUENCIES
    THEN Bin(FREQUENCY_RANGES[i], sample_rate)
             .. Bin(FREQUENCY_RANGES[i + 1], sample_rate)
    ELSE Bin(FREQUENCY_RANGES[i], sample_rate) .. (NYQUIST_BIN - 1)

BandBins(i, sample_rate) ==
    IF i < FREQUENCIES
    THEN (Bin(FREQUENCY_RANGES[i], sample_rate) + 1)
             .. Bin(FREQUENCY_RANGES[i + 1], sample_rate)
    ELSE (Bin(FREQUENCY_RANGES[i], sample_rate) + 1) .. (NYQUIST_BIN - 1)

\* mapped_samples[j]: outside the array the read yields what lies behind it
\* on the thread's stack.
ReadSample(mapped_samples, j, garbage) ==
    IF j \in DOMAIN mapped_samples THEN mapped_samples[j] ELSE garbage

Maximum(S) == CHOOSE x \in S : \A y \in S : y <= x

\* max_amplitude after the loop over the bins.
MaxAmplitude(mapped_samples, bins, garbage) ==
    Maximum({0} \cup { ReadSample(mapped_samples, j, garbage) : j \in bins })

BandMap(mapped_samples, sample_rate, garbage) ==
    [ i \in 1 .. FREQUENCIES |->
        MaxAmplitude(mapped_samples, BandBins(i, sample_rate), garbage) ]

BandReads(sample_rate) == UNION { BandBins(i, sample_rate) : i \in 1 .. FREQUENCIES }

\* The magnitude array of a tone at the given frequency, with a weaker second
\* peak in the next bin when the tone is not pure.
ToneSamples(frequency, sample_rate, pure) ==
    [ k \in 0 .. (NYQUIST_BIN - 1) |->
        IF k = Bin(frequency, sample_rate) THEN 2
        ELSE IF ~pure /\ k = Bin(frequency, sample_rate) + 1 THEN 1
        ELSE 0 ]

ToneFrequencies(sample_rate) ==
    { k * ToneStep : k \in 0 .. (((sample_rate \div 2) - 1) \div ToneStep) }

band_mapping ==
    /\ calc.kind = "bands"
    /\ calc.pc = "magnitudes"
    /\ \E garbage \in 0 .. MaxGarbage :
           calc' = [calc EXCEPT
                      !.pc = "mapped",
                      !.output = BandMap(calc.mapped_samples, calc.sample_rate,
                                         garbage),
                      !.reads = BandReads(calc.sample_rate)]
    /\ UNCHANGED << win, win_fft, driver, in_rb, cb, ffts, threads, invokes, uaf,
                    qvars, current_bar_heights, last_call >>

BandInit ==
    /\ SBase
    /\ QFixed
    /\ \E sample_rate \in SmoothRates :
       \E frequency \in ToneFrequencies(sample_rate), pure \in BOOLEAN :
           calc = [ kind |-> "bands", sample_rate |-> sample_rate,
                    frequency |-> frequency, pure |-> pure,
                    mapped_samples |-> ToneSamples(frequency, sample_rate, pure),
                    pc |-> "magnitudes",
                    output |-> [ i \in 1 .. FREQUENCIES |-> 0 ],
                    reads |-> {} ]

BandNext == band_mapping

BandSpec == BandInit /\ [][BandNext]_vars

QInit == QInitQueue /\ SInit

QNext == QNextQueue /\ UNCHANGED svars

QueueSpec == QInit /\ [][QNext]_vars

(***************************************************************************)
(* Claims about the frame queue, checked under QueueSpec.                  *)
(***************************************************************************)
Range(s) == { s[i] : i \in 1 .. Len(s) }

ProducerStep == << p_pc, p_res, p_full, q_offered >>' # << p_pc, p_res, p_full, q_offered >>

ConsumerStep == << c_pc, c_res, c_empty, c_out >>' # << c_pc, c_res, c_empty, c_out >>

\* C1: a write that finds the queue full returns 0 at once and changes neither
\* the queued records nor the cursors; a write that finds it not full goes on
\* and returns 1, adding its record behind the queued ones; so a finished
\* write returned 0 exactly when the queue was full.
C1_WriteFullRejected ==
    [][ /\ (ProducerStep /\ p_pc = "idle" /\ Len(Contents(q_rb)) = q_rb.bufferSize)
            => (p_res' = 0 /\ p_pc' = "idle" /\ q_rb' = q_rb /\ q_accepted' = q_accepted)
        /\ (ProducerStep /\ p_pc = "idle" /\ Len(Contents(q_rb)) < q_rb.bufferSize)
            => (p_res' = -1 /\ p_pc' # "idle")
        /\ (ProducerStep /\ p_pc # "idle" /\ p_pc' = "idle")
            => (p_res' = 1 /\ Contents(q_rb') = Append(Contents(q_rb), p_rec))
        /\ (p_res' = 0 => p_full')
        /\ (p_res' = 1 => ~p_full')
      ]_vars

\* Capacity 1, two writes and no read: the second write returned 0 and the
\* first record is still the only queued one.
C1_Witness ==
    /\ q_rb.bufferSize = 1
    /\ q_offered = 2
    /\ p_res = 0
    /\ q_returned = << >>
    /\ c_pc = "idle"
    /\ Contents(q_rb) = << << 1, 1 >> >>

\* C2: a read returns 0 exactly when it found the queue empty; a read that
\* found a record goes on, returns 1 and removes exactly the oldest record.
C2_ReadEmptyIffZero ==
    [][ /\ (ConsumerStep /\ c_pc = "idle" /\ Len(Contents(q_rb)) = 0)
            => (c_res' = 0 /\ c_pc' = "idle" /\ q_rb' = q_rb)
        /\ (ConsumerStep /\ c_pc = "idle" /\ Len(Contents(q_rb)) > 0)
            => (c_res' = -1 /\ c_pc' # "idle")
        /\ (ConsumerStep /\ c_pc # "idle" /\ c_pc' = "idle")
            => (c_res' = 1 /\ Contents(q_rb') = Tail(Contents(q_rb)))
        /\ (c_res' = 0 => c_empty')
        /\ (c_res' = 1 => ~c_empty')
      ]_vars

C2_Witness ==
    /\ c_res = 1
    /\ Len(q_returned) = 2
    /\ Len(Contents(q_rb)) = 1
    /\ c_pc = "idle"

\* C3: the records returned by successful reads are a prefix of the records
\* accepted by successful writes.
C3_Fifo == IsPrefix(q_returned, q_accepted)

\* Three records read in order through a queue of capacity 2 (the cursors
\* wrapped), after a write was rejected.
C3_Witness ==
    /\ q_rb.bufferSize = 2
    /\ Len(q_returned) >= 3
    /\ Len(q_accepted) < q_offered

\* C4: every record a read returned, and the record a read has copied out and is
\* about to return, equals in full a record passed to a successful write; no
\* half of it comes from another record or from a write still in progress.
C4_NoTornRead ==
    /\ \A i \in 1 .. Len(q_returned) : q_returned[i] \in Range(q_accepted)
    /\ c_pc = "advance" => c_out \in Range(q_accepted)

\* A read finished while the producer was in the middle of copying a record.
C4_Witness ==
    /\ Len(q_returned) >= 1
    /\ c_res = 1
    /\ c_pc = "idle"
    /\ p_pc = "copy2"

(***************************************************************************)
(* Claims about the application.                                           *)
(***************************************************************************)
Running(a) == threads[a].pc \in {"top", "read", "emit"}

\* C5: at most one analyzer thread is at its read of the input queue.
C5_SingleReader ==
    Cardinality({ a \in FFTs : threads[a].pc = "read" }) <= 1

\* C6: no analyzer thread reads the input queue after audio_driver_close has
\* released it.
C6_NoReadAfterDriverClose == "audio_rb" \notin uaf

\* C7: an analyzer object is finalized (plan, transform buffers, frame buffer
\* and output queue released) only when its worker thread has returned.
C7_FinalizeAfterThreadExit ==
    \A a \in FFTs : ffts[a].state = "finalized" => threads[a].pc = "exited"

\* The window dropped an analyzer on a device switch, and the analyzer has been
\* finalized since.
C7_Witness ==
    /\ win = "running"
    /\ \E a \in FFTs : ffts[a].state = "finalized" /\ threads[a].task = "done"

\* C8: once cancellation is requested a worker thread never waits and takes at
\* most the rest of the iteration it is in (the read and the emit) before the
\* check at the top of the loop ends it.
C8_CancelBounded ==
    \A a \in FFTs :
        /\ threads[a].late <= 2
        /\ Running(a) => ENABLED audiolize_fft_thread_cb(a)

\* Cancelled in the middle of an iteration that went on to read and emit.
C8_Witness ==
    \E a \in FFTs :
        /\ ffts[a].canellable
        /\ threads[a].pc = "top"
        /\ threads[a].late = 2

\* C9: a hardware event makes one write attempt of one frame and changes
\* nothing else; on a full queue the queue stays as it is; the callback
\* returns the continue code either way.
C9_CallbackOneWrite ==
    [][ cb.calls' # cb.calls =>
          /\ cb.calls' = cb.calls + 1
          /\ cb.ret' = paContinue
          /\ IF Len(Contents(in_rb)) = RING_BUFFER_SIZE
             THEN in_rb' = in_rb
             ELSE Contents(in_rb') = Append(Contents(in_rb), AudioFrame)
          /\ UNCHANGED << win, win_fft, driver, ffts, threads, invokes, uaf >>
      ]_vars

\* More events than the queue holds and nothing read yet: a frame was dropped.
C9_Witness ==
    /\ cb.calls = RING_BUFFER_SIZE + 1
    /\ Len(Contents(in_rb)) = RING_BUFFER_SIZE
    /\ \A a \in FFTs : threads[a].frames_read = 0

\* C10: the frames a worker thread analyzed are exactly the SKIP_SAMPLES-th,
\* the 2*SKIP_SAMPLES-th, ... of the frames it read, so after k frames read it
\* has computed k \div SKIP_SAMPLES band vectors.
C10_Decimation ==
    \A a \in FFTs :
        threads[a].analyzed_at =
            [i \in 1 .. (threads[a].frames_read \div SKIP_SAMPLES) |-> i * SKIP_SAMPLES]

C10_Witness ==
    \E a \in FFTs :
        /\ threads[a].frames_read = 2 * SKIP_SAMPLES
        /\ Len(threads[a].analyzed_at) = 2

\* C11: the emit step of a worker thread posts one call to the main context
\* when its band vector went into the output queue, and none when the queue
\* was full; in that case the queue stays as it is and the vector is dropped;
\* either way the thread is back at the top of its loop, and nothing but that
\* analyzer's queue and pending calls is touched.
C11_NotifyIffWritten ==
    [][ \A a \in FFTs :
          (threads[a].pc = "emit" /\ threads'[a].pc # "emit") =>
             /\ threads'[a].pc = "top"
             /\ IF Len(Contents(ffts[a].out_rb)) = RING_BUFFER_SIZE
                THEN /\ ffts'[a].out_rb = ffts[a].out_rb
                     /\ invokes' = invokes
                ELSE /\ Contents(ffts'[a].out_rb) =
                            Append(Contents(ffts[a].out_rb), threads[a].output)
                     /\ invokes' = [invokes EXCEPT ![a] = @ + 1]
             /\ \A b \in FFTs \ {a} : ffts'[b] = ffts[b]
      ]_vars

\* The main context ran nothing while the thread analyzed five frames: four
\* band vectors queued, four calls posted, the fifth vector dropped.
C11_Witness ==
    \E a \in FFTs :
        /\ threads[a].pc = "top"
        /\ Len(threads[a].analyzed_at) = RING_BUFFER_SIZE + 1
        /\ Len(Contents(ffts[a].out_rb)) = RING_BUFFER_SIZE
        /\ invokes[a] = RING_BUFFER_SIZE

\* C12: one run of audiolize_fft_compute_bar_heights takes the oldest band
\* vector from the analyzer's output queue if there is one, and no other:
\* the vectors queued behind it stay, whatever number of calls is pending.
C12_NotifyTakesOne ==
    [][ \A a \in FFTs :
          invokes'[a] < invokes[a] =>
             /\ invokes'[a] = invokes[a] - 1
             /\ Contents(ffts'[a].out_rb) =
                  IF Contents(ffts[a].out_rb) = << >> THEN << >>
                  ELSE Tail(Contents(ffts[a].out_rb))
      ]_vars

\* Five band vectors analyzed, four of them written: the queue was full with
\* four calls pending.  Then one call ran, and three vectors are still queued.
C12_Witness ==
    \E a \in FFTs :
        /\ threads[a].pc = "top"
        /\ Len(threads[a].analyzed_at) = RING_BUFFER_SIZE + 1
        /\ ffts[a].out_rb.readIndex = 1
        /\ Len(Contents(ffts[a].out_rb)) = RING_BUFFER_SIZE - 1
        /\ invokes[a] = RING_BUFFER_SIZE - 1

\* C13: a step of a worker thread and a run of the capture callback leave
\* every analyzer's surface and target height and the displayed height as
\* they are.
C13_RenderStateMainOnly ==
    [][ ((\E a \in FFTs : Running(a) /\ threads'[a] # threads[a]) \/ cb' # cb) =>
          /\ current_bar_heights' = current_bar_heights
          /\ \A a \in FFTs : /\ ffts'[a].surface = ffts[a].surface
                              /\ ffts'[a].bar_heights = ffts[a].bar_heights
      ]_vars

\* A surface, a target height and a displayed height set on the main context,
\* with the worker thread about to emit its second band vector.
C13_Witness ==
    \E a \in FFTs :
        /\ ~ffts[a].surface.null
        /\ ffts[a].bar_heights > 0
        /\ current_bar_heights > 0
        /\ threads[a].pc = "emit"
        /\ Len(threads[a].analyzed_at) = 2

\* C14: with fps_diff >= 1 a render tick leaves the displayed height between
\* its previous value and the target height, both included; so while the
\* target stays the same the displayed height moves toward it only, and never
\* past it.
C14_NoOvershoot ==
    [][ \A a \in FFTs :
          ( /\ ffts'[a].ticks # ffts[a].ticks \/ current_bar_heights' # current_bar_heights
            /\ ~ffts[a].surface.null
            /\ ffts[a].timeout = "scheduled"
            /\ ffts[a].fps_diff.num >= ffts[a].fps_diff.den
            /\ ffts'[a].bar_heights = ffts[a].bar_heights ) =>
             \/ /\ current_bar_heights <= current_bar_heights'
                /\ current_bar_heights' <= ffts[a].bar_heights
             \/ /\ ffts[a].bar_heights <= current_bar_heights'
                /\ current_bar_heights' <= current_bar_heights
      ]_vars

\* Two ticks at fps_diff > 1 have passed and the displayed height is strictly
\* between where it can have started and the target.
C14_Witness ==
    \E a \in FFTs :
        /\ ffts[a].ticks = 2
        /\ ffts[a].fps_diff.num > ffts[a].fps_diff.den
        /\ ffts[a].bar_heights = 0
        /\ current_bar_heights > 0

\* C15: with fps_diff >= 1 and the target height left as it is, the displayed
\* height equals the target from some tick on.
C15_Converges ==
    (\A a \in FFTs : ffts[a].state = "live" => ffts[a].fps_diff.num >= ffts[a].fps_diff.den)
        => <>[](\A a \in FFTs : ffts[a].state = "live" =>
                                   current_bar_heights = ffts[a].bar_heights)

(***************************************************************************)
(* Claims about the audio driver.                                          *)
(***************************************************************************)
StreamsHeld == IF driver.stream.handle THEN 1 ELSE 0

\* C16: whatever calls of open_stream, close_stream and set_selected_device
\* were made, PortAudio never had two streams of the driver open at once, and
\* the stream it has open is the one the driver holds the handle of.
C16_OneStream ==
    /\ driver.peak_streams <= 1
    /\ driver.open_streams = StreamsHeld

\* open_stream was called with a stream open, and a stream is open now.
C16_Witness ==
    /\ last_call.op = "open_stream"
    /\ last_call.before.stream.handle
    /\ last_call.before.stream.started
    /\ driver.stream.handle
    /\ driver.open_streams = 1

\* C17: after a call of open_stream in which opening or starting the stream
\* failed, the driver holds no stream handle.
C17_FailedOpenLeavesNoStream ==
    (last_call.op = "open_stream" /\ ~(last_call.open_ok /\ last_call.start_ok))
        => ~driver.stream.handle

\* C18: a call of set_selected_device with an index outside 0 .. num_devices - 1
\* leaves the driver as it was: selected index, selected device, stream.
C18_OutOfRangeRejected ==
    (last_call.op = "set_selected_device" /\ last_call.device_index \notin Devices)
        => driver = last_call.before

\* C19: after set_selected_device(i) with i in range, the selected index is i
\* and the selected device is devices[i]; the stream that was open before has
\* been closed before the new one was opened, and the stream open now, if
\* any, was opened on device i in this call.
C19_SwitchSelectsAndReopens ==
    (last_call.op = "set_selected_device" /\ last_call.device_index \in Devices) =>
        /\ driver.selected_index = last_call.device_index
        /\ driver.selected_device.valid
        /\ driver.selected_device.index = last_call.device_index
        /\ driver.stream.handle <=> last_call.open_ok
        /\ driver.stream.started <=> (last_call.open_ok /\ last_call.start_ok)
        /\ driver.stream.handle => driver.stream.dev = last_call.device_index
        /\ driver.open_streams = StreamsHeld
        /\ driver.peak_streams <= 1

\* A stream was running on device 0; now one is running on device 1.
C19_Witness ==
    /\ last_call.op = "set_selected_device"
    /\ last_call.device_index = 1
    /\ last_call.before.stream.started
    /\ last_call.before.stream.dev = 0
    /\ driver.stream.started
    /\ driver.stream.dev = 1

\* C20: while the thread of an analyzer the window has replaced is still
\* running, no stream is open and the new analyzer's thread is not running.
C20_SwitchWaitsForOldThread ==
    \A a \in FFTs :
        (win = "running" /\ a # win_fft /\ Running(a)) =>
            /\ ~driver.stream.handle
            /\ ~Running(win_fft)

\* C21: the frame an analyzer made by a device switch has read from the input
\* queue was delivered by the stream opened on the device selected now, not
\* by the stream that was open before the switch.
C21_NoFrameAcrossSwitch ==
    (win = "running" /\ win_fft > 1) =>
        ffts[win_fft].input_data \in {NoFrame, FrameFrom(driver.selected_index)}

\* C22: close_stream on a driver without a stream changes nothing; on a
\* driver with a stream it closes that stream, leaves the driver without a
\* stream and touches nothing else; so a second close_stream changes nothing.
C22_CloseStreamIdempotent ==
    last_call.op = "close_stream" =>
        /\ ~last_call.before.stream.handle => driver = last_call.before
        /\ last_call.before.stream.handle =>
              driver = [last_call.before EXCEPT !.stream = NullStream,
                                                !.open_streams = @ - 1]
        /\ ~driver.stream.handle
        /\ driver.open_streams = 0
        /\ audio_driver_close_stream(driver) = driver

\* close_stream on a driver whose stream had been closed before.
C22_Witness ==
    /\ last_call.op = "close_stream"
    /\ ~last_call.before.stream.handle
    /\ last_call.before.peak_streams = 1

\* C23: no render tick asks a drawing area that has been destroyed to redraw:
\* its destruction sets the pointer of every live analyzer to NULL, and a tick
\* that finds the pointer NULL leaves the redraw out.
C23_NoRedrawAfterDestroy ==
    /\ "drawing_area" \notin uaf
    /\ win = "finalized" => \A a \in FFTs : ~ffts[a].drawing_area

\* The window and its drawing area are gone; the analyzer, kept by its task,
\* still has its surface and its timer, and its pointer has been cleared.
C23_Witness ==
    /\ win = "finalized"
    /\ \E a \in FFTs :
          /\ ffts[a].state = "live"
          /\ ~ffts[a].surface.null
          /\ ffts[a].timeout = "scheduled"
          /\ ffts[a].ticks = MaxTicks
          /\ ~ffts[a].drawing_area

\* C24: an analyzer whose transform buffers or plan could not be made is not
\* handed to the window, and neither its worker thread nor its render timer
\* was started.
C24_FailedSetupNotStarted ==
    \A a \in FFTs :
        (ffts[a].state = "live" /\ ~ffts[a].fftw_plan) =>
            /\ win_fft # a
            /\ threads[a].pc = "none"
            /\ ffts[a].timeout = "none"

\* C25: when audio_driver_new returns no driver the window stops there: no
\* stream was ever opened, no analyzer constructed, no thread started.
C25_NoDriverNothingStarted ==
    win = "aborted" =>
        /\ ~driver.stream.handle
        /\ driver.peak_streams = 0
        /\ Created = {}
        /\ win_fft = 0
        /\ \A a \in FFTs : threads[a].pc = "none"
        /\ cb.calls = 0

C25_Witness ==
    /\ win = "aborted"
    /\ driver.open_streams = 0
    /\ \A a \in FFTs : ffts[a].state = "none"

\* C26: the pair fft.c is built with has NYQUIST_BIN * 2 = FRAMES_PER_BUFFER
\* and passes the check of class initialisation; a pair with FRAMES_PER_BUFFER
\* # 2 * NYQUIST_BIN fails that check, so no frame is ever analysed with it,
\* and no matching pair is refused.
C26_MismatchFailsAtSetup ==
    calc.kind = "config" =>
        /\ (calc.frames_per_buffer = FRAMES_PER_BUFFER
              /\ calc.nyquist_bin = NYQUIST_BIN) =>
                (calc.nyquist_bin * 2 = calc.frames_per_buffer
                  /\ calc.class # "aborted")
        /\ calc.class = "ready" => calc.frames_per_buffer = 2 * calc.nyquist_bin
        /\ calc.class = "aborted" => calc.frames_per_buffer # 2 * calc.nyquist_bin
        /\ calc.frames_per_buffer # 2 * calc.nyquist_bin => calc.analysed = 0

C26_Witness ==
    /\ calc.kind = "config"
    /\ calc.class = "aborted"
    /\ calc.frames_per_buffer = FRAMES_PER_BUFFER
    /\ calc.nyquist_bin = NYQUIST_BIN_literal

\* The band of the table whose range of frequencies holds the frequency:
\* band i is above boundary i and up to boundary i + 1, the last band is
\* above the last boundary; 0 at or below the first boundary.
BandOf(frequency) ==
    Cardinality({ i \in 1 .. FREQUENCIES : FREQUENCY_RANGES[i] < frequency })

BandOfBin(bin, sample_rate) ==
    Cardinality({ i \in 1 .. FREQUENCIES :
                    Bin(FREQUENCY_RANGES[i], sample_rate) < bin })

MaxMagnitude(mapped_samples, bins) ==
    Maximum({0} \cup { mapped_samples[j] : j \in bins \cap DOMAIN mapped_samples })

\* C29: at every sample rate and for every magnitude array the band vector
\* has FREQUENCIES entries; entry i - 1, for i in 1 .. FREQUENCIES - 1, is the
\* largest magnitude in the bins above the bin of boundary i - 1 up to the bin
\* of boundary i (0 when there is none), and the last entry is the largest
\* magnitude in the bins above the bin of the last boundary.
C29_BandsAreMaxima ==
    (calc.kind = "bands" /\ calc.pc = "mapped") =>
        /\ DOMAIN calc.output = 1 .. FREQUENCIES
        /\ \A i \in 1 .. (FREQUENCIES - 1) :
              calc.output[i] =
                  MaxMagnitude(calc.mapped_samples,
                      (Bin(FREQUENCY_RANGES[i], calc.sample_rate) + 1)
                          .. Bin(FREQUENCY_RANGES[i + 1], calc.sample_rate))
        /\ calc.output[FREQUENCIES] =
              MaxMagnitude(calc.mapped_samples,
                  (Bin(FREQUENCY_RANGES[FREQUENCIES], calc.sample_rate) + 1)
                      .. NYQUIST_BIN)

\* C30: every index the band mapping reads the magnitude array at is in
\* 0 .. NYQUIST_BIN - 1, at every sample rate.
C30_ReadsInBounds ==
    (calc.kind = "bands" /\ calc.pc = "mapped") =>
        \A j \in calc.reads : 0 <= j /\ j < NYQUIST_BIN

\* Where an analyzer is in its life: not constructed, constructed with its
\* thread not started, in the loop with the cancellable not set, in the loop
\* with the cancellable set, out of the thread function.
AnalyzerState(f, t) ==
    IF t.pc = "exited" THEN "Stopped"
    ELSE IF t.pc # "none" THEN (IF f.canellable THEN "Cancelling" ELSE "Running")
    ELSE IF f.state = "none" THEN "none"
    ELSE "Created"

AnalyzerMoves ==
    { << "none", "Created" >>, << "none", "Running" >>,
      << "Created", "Running" >>, << "Running", "Cancelling" >>,
      << "Cancelling", "Stopped" >> }

\* One step seen from analyzer a: it stays where it is or moves along
\* Created -> Running -> Cancelling -> Stopped, and once stopped it reads no
\* frame, writes no band vector and posts no notification.
LifecycleStep(a) ==
    LET from == AnalyzerState(ffts[a], threads[a])
        to   == AnalyzerState(ffts'[a], threads'[a])
    IN  /\ from = to \/ << from, to >> \in AnalyzerMoves
        /\ from = "Stopped" =>
              /\ threads'[a].frames_read = threads[a].frames_read
              /\ invokes'[a] <= invokes[a]
              /\ ffts'[a].state = "live" =>
                    ffts'[a].out_rb.writeIndex = ffts[a].out_rb.writeIndex

\* C28: every analyzer moves only along Created -> Running -> Cancelling ->
\* Stopped, is Running only with its plan and buffers allocated, is
\* Cancelling only with the cancellable set, never goes back to Running, and
\* once Stopped reads no frame, writes no band vector and posts no
\* notification.
C28_Lifecycle ==
    [][\A a \in FFTs :
          /\ LifecycleStep(a)
          /\ AnalyzerState(ffts'[a], threads'[a]) = "Running" => ffts'[a].fftw_plan
      ]_vars

\* C31: from its setup to its finalization an analyzer's render timer is
\* scheduled: a tick that finds no surface does not end the timer.
C31_TickStaysScheduled ==
    \A a \in FFTs : ffts[a].state = "live" => ffts[a].timeout = "scheduled"

\* C32: the destruction of the drawing area never runs the weak reference's
\* callback on an analyzer that was finalized before.
C32_WeakRefReleased == "fft" \notin uaf

\* C33: a render tick of an analyzer that has a surface replaces the displayed
\* height c by c + (t - c) / fps_diff cut to an integer, t the target height
\* and fps_diff = FPS * (FRAMES_PER_BUFFER / sample_rate) * SKIP_SAMPLES as set
\* at setup; it leaves the target height, the output queue and the posted
\* notifications as they are.
C33_TickFormula ==
    [][ \A a \in FFTs :
          ( /\ ffts[a].state = "live"
            /\ ~ffts[a].surface.null
            /\ ffts[a].timeout = "scheduled"
            /\ ffts'[a].ticks # ffts[a].ticks
                  \/ current_bar_heights' # current_bar_heights ) =>
              LET c  == current_bar_heights
                  t  == ffts[a].bar_heights
                  sr == defaultSampleRate(driver.selected_index)
                  k  == FPS * FRAMES_PER_BUFFER * SKIP_SAMPLES
              IN  /\ ffts[a].fps_diff = [num |-> k, den |-> sr]
                  /\ ffts'[a].fps_diff = ffts[a].fps_diff
                  /\ current_bar_heights' = TruncDiv((c * k) + ((t - c) * sr), k)
                  /\ ffts'[a].bar_heights = ffts[a].bar_heights
                  /\ ffts'[a].out_rb = ffts[a].out_rb
                  /\ invokes' = invokes
      ]_vars

\* Ticks have moved the displayed height part of the way to the target while
\* band vectors wait in the output queue and notifications are posted.
C33_Witness ==
    \E a \in FFTs :
        /\ ffts[a].ticks >= 1
        /\ current_bar_heights > 0
        /\ current_bar_heights < ffts[a].bar_heights
        /\ Len(Contents(ffts[a].out_rb)) > 0
        /\ invokes[a] > 0

\* C34: a resize signal, whatever the worker thread and the main context are
\* doing, leaves the analyzer with one surface, of the size of the signal,
\* and leaves the target height, the displayed height, both queues, the
\* posted notifications and the worker threads as they are.
C34_ResizeFrame ==
    [][ last_call' # last_call \/ (\E a \in FFTs : ffts'[a].surface # ffts[a].surface) =>
          /\ last_call'.op = "resize"
          /\ ~ffts'[win_fft].surface.null
          /\ ffts'[win_fft].surface.height = last_call'.height
          /\ ffts'[win_fft].surfaces = 1
          /\ ffts' = [ffts EXCEPT ![win_fft].surface = ffts'[win_fft].surface,
                                  ![win_fft].surfaces = 1]
          /\ UNCHANGED << current_bar_heights, in_rb, invokes, threads >>
      ]_vars

\* A surface of one height replaced by one of another height while a band
\* vector waits in the output queue, a notification is posted, the target
\* height is set and the worker thread is in its loop.
C34_Witness ==
    \E a \in FFTs :
        /\ last_call.op = "resize"
        /\ last_call.height = 1
        /\ ffts[a].surface.height = 1
        /\ ffts[a].bar_heights > 1
        /\ Len(Contents(ffts[a].out_rb)) > 0
        /\ invokes[a] > 0
        /\ threads[a].pc = "read"

\* C35: the notifications of an analyzer posted and not yet handled are never
\* more than the band vectors in its output queue, so every run of the
\* handler finds a band vector there.
C35_NotificationsWithinQueue ==
    \A a \in FFTs : invokes[a] <= Len(Contents(ffts[a].out_rb))

\* The output queue is full, as many notifications are posted, and one more
\* band vector was computed and rejected by the queue.
C35_Witness ==
    \E a \in FFTs :
        /\ Len(Contents(ffts[a].out_rb)) = RING_BUFFER_SIZE
        /\ invokes[a] = RING_BUFFER_SIZE
        /\ Len(threads[a].analyzed_at) = RING_BUFFER_SIZE + 1
        /\ threads[a].pc = "top"

\* C36: a notification handled while the analyzer has no surface takes the
\* oldest band vector out of the output queue and leaves the target height
\* and the displayed height as they are; the vector is in the queue no more.
C36_NoSurfaceDiscards ==
    [][ \A a \in FFTs :
          (invokes'[a] < invokes[a] /\ ffts[a].surface.null) =>
              /\ Len(Contents(ffts[a].out_rb)) > 0
              /\ Contents(ffts'[a].out_rb) = Tail(Contents(ffts[a].out_rb))
              /\ ffts'[a].bar_heights = ffts[a].bar_heights
              /\ current_bar_heights' = current_bar_heights
              /\ ffts'[a].surface.null
      ]_vars

\* The one band vector computed so far was handled while there was no
\* surface: the queue is empty again and the target height is still 0.
C36_Witness ==
    \E a \in FFTs :
        /\ ffts[a].surface.null
        /\ Len(threads[a].analyzed_at) = 1
        /\ threads[a].pc = "top"
        /\ Len(Contents(ffts[a].out_rb)) = 0
        /\ invokes[a] = 0
        /\ ffts[a].bar_heights = 0

\* C37: while the main context goes on running, from some moment on every
\* analyzer whose last accepted band vector was written while it had a
\* surface has an empty output queue, no notification posted, and the target
\* height derived from that band vector.
C37_Drains ==
    <>[](\A a \in FFTs :
           (threads[a].written.vec # NoFrame /\ threads[a].written.surface) =>
               /\ Len(Contents(ffts[a].out_rb)) = 0
               /\ invokes[a] = 0
               /\ ffts[a].bar_heights
                     \in BarHeights(threads[a].written.vec, MaxSurfaceHeight))

\* Two band vectors were written, the second of a loud frame while there was
\* a surface; the queue is drained and the target height is the loud one.
C37_Witness ==
    \E a \in FFTs :
        /\ Len(threads[a].analyzed_at) = 2
        /\ threads[a].written = [vec |-> BandVector(LoudFrame), surface |-> TRUE]
        /\ Len(Contents(ffts[a].out_rb)) = 0
        /\ invokes[a] = 0
        /\ ffts[a].bar_heights \in BarHeights(BandVector(LoudFrame), MaxSurfaceHeight)
        /\ ffts[a].bar_heights \notin BarHeights(BandVector(AudioFrame), MaxSurfaceHeight)

\* C38: no analyzer has released one of its resources more often than it
\* acquired it.
C38_ReleasedOnce ==
    \A a \in FFTs : \A r \in Resources :
        ffts[a].released[r] <= ffts[a].acquired[r]

====
